---- MODULE Spec2Model ----
(***************************************************************************)
(* A model of chafa's WASM SIMD kernels (chafa/internal/chafa-wasm-simd.c): *)
(*   chafa_calc_cell_error_wasm_simd                                        *)
(*   chafa_extract_cell_mean_colors_wasm_simd                               *)
(*   chafa_color_accum_div_scalar_wasm_simd  (with the table invdiv16)      *)
(*   chafa_color_diff_4x_wasm_simd                                          *)
(*   chafa_work_cell_to_bitmap_wasm_simd                                    *)
(*                                                                          *)
(* A v128_t is modelled by its lanes, indexed from 0 as in the intrinsics:  *)
(*   u8x16  : [0..15 -> 0..255]                                             *)
(*   i16x8  : [0..7  -> 0..65535]   the lane's 16 bits; S16 reads it signed *)
(*   i32x4  : [0..3  -> Int]        the signed value of the lane            *)
(* A ChafaPixel / ChafaColor is its four bytes [0..3 -> 0..255] in memory   *)
(* order R,G,B,A; a guint32 mask word is its four bytes as well.            *)
(* Every i32 lane of these kernels stays far below 2^31 in magnitude        *)
(* (at most 64 * 8 * 32768), so 32-bit lane addition never wraps.           *)
(***************************************************************************)
EXTENDS Integers, Sequences, FiniteSets, TLC

(***************************************************************************)
(* Program constants and model bounds                                      *)
(***************************************************************************)
CHAFA_SYMBOL_N_PIXELS == 64

\* longest palette handed to chafa_color_diff_4x_wasm_simd in the model
MaxColors == 5

R == 0
G == 1
B == 2
A == 3

(***************************************************************************)
(* Vectors of 4, 8 and 16 lanes, lane k at index k, every lane evaluated    *)
(* once when the vector is built                                           *)
(***************************************************************************)
V4(F(_)) == (0 :> F(0)) @@ (1 :> F(1)) @@ (2 :> F(2)) @@ (3 :> F(3))

V8(F(_)) ==
    (0 :> F(0)) @@ (1 :> F(1)) @@ (2 :> F(2)) @@ (3 :> F(3)) @@
    (4 :> F(4)) @@ (5 :> F(5)) @@ (6 :> F(6)) @@ (7 :> F(7))

V16(F(_)) ==
    (0 :> F(0)) @@ (1 :> F(1)) @@ (2 :> F(2)) @@ (3 :> F(3)) @@
    (4 :> F(4)) @@ (5 :> F(5)) @@ (6 :> F(6)) @@ (7 :> F(7)) @@
    (8 :> F(8)) @@ (9 :> F(9)) @@ (10 :> F(10)) @@ (11 :> F(11)) @@
    (12 :> F(12)) @@ (13 :> F(13)) @@ (14 :> F(14)) @@ (15 :> F(15))

Color(r, g, b, a) == (0 :> r) @@ (1 :> g) @@ (2 :> b) @@ (3 :> a)

(***************************************************************************)
(* Lane arithmetic                                                         *)
(***************************************************************************)
RECURSIVE BitAnd(_, _, _)
BitAnd(a, b, n) ==
    IF n = 0 \/ a = 0 \/ b = 0 THEN 0
    ELSE (a % 2) * (b % 2) + 2 * BitAnd(a \div 2, b \div 2, n - 1)

RECURSIVE BitOr(_, _, _)
BitOr(a, b, n) ==
    IF n = 0 THEN 0
    ELSE IF a = 0 THEN b
    ELSE IF b = 0 THEN a
    ELSE (IF a % 2 = 1 \/ b % 2 = 1 THEN 1 ELSE 0) + 2 * BitOr(a \div 2, b \div 2, n - 1)

\* the signed value of a 16-bit lane
S16(x) == IF x >= 32768 THEN x - 65536 ELSE x

\* the 16 bits of an integer (two's complement)
U16(x) == x % 65536

(***************************************************************************)
(* The wasm_simd128.h intrinsics the kernels use                           *)
(***************************************************************************)
\* four consecutive 4-byte elements arr[i..i+3] as sixteen bytes
wasm_v128_load(arr, i) == V16(LAMBDA k : arr[i + (k \div 4)][k % 4])

\* one 4-byte element replicated to all four 32-bit lanes
wasm_v128_load32_splat(c) == V16(LAMBDA k : c[k % 4])

wasm_v128_bitselect(a, b, m) ==
    V16(LAMBDA k : BitOr(BitAnd(a[k], m[k], 8), BitAnd(b[k], 255 - m[k], 8), 8))

wasm_v128_and(a, b) == V16(LAMBDA k : BitAnd(a[k], b[k], 8))

\* the operands taken the other way round: ~a & b
wasm_v128_andnot_swapped(a, b) == V16(LAMBDA k : BitAnd(255 - a[k], b[k], 8))

wasm_v128_andnot(a, b) == V16(LAMBDA k : BitAnd(a[k], 255 - b[k], 8))

wasm_v128_or(a, b) == V16(LAMBDA k : BitOr(a[k], b[k], 8))

wasm_u8x16_sub_sat(a, b) == V16(LAMBDA k : IF a[k] > b[k] THEN a[k] - b[k] ELSE 0)

wasm_u16x8_extend_low_u8x16(v) == V8(LAMBDA k : v[k])

wasm_u16x8_extend_high_u8x16(v) == V8(LAMBDA k : v[k + 8])

wasm_i16x8_splat(x) == V8(LAMBDA k : U16(x))

wasm_i16x8_add(a, b) == V8(LAMBDA k : U16(a[k] + b[k]))

wasm_i16x8_sub(a, b) == V8(LAMBDA k : U16(a[k] - b[k]))

\* the low 16 bits of the lane product
wasm_i16x8_mul(a, b) == V8(LAMBDA k : U16(S16(a[k]) * S16(b[k])))

\* idx[k] in 0..7 picks a lane of a, in 8..15 a lane of b
wasm_i16x8_shuffle(a, b, idx) ==
    V8(LAMBDA k : IF idx[k + 1] < 8 THEN a[idx[k + 1]] ELSE b[idx[k + 1] - 8])

\* signed: each 16-bit lane is sign-extended before the pair is added
wasm_i32x4_extadd_pairwise_i16x8(v) == V4(LAMBDA k : S16(v[2 * k]) + S16(v[2 * k + 1]))

wasm_i32x4_extend_low_i16x8(v) == V4(LAMBDA k : S16(v[k]))

wasm_i32x4_splat(x) == V4(LAMBDA k : x)

wasm_i32x4_add(a, b) == V4(LAMBDA k : a[k] + b[k])

wasm_i32x4_shuffle(a, b, c0, c1, c2, c3) ==
    LET idx == <<c0, c1, c2, c3>>
    IN  V4(LAMBDA k : IF idx[k + 1] < 4 THEN a[idx[k + 1]] ELSE b[idx[k + 1] - 4])

wasm_i32x4_extract_lane(v, k) == v[k]

\* signed widening multiply of lanes 0..3 / 4..7
wasm_i32x4_extmul_low_i16x8(a, b) == V4(LAMBDA k : S16(a[k]) * S16(b[k]))

wasm_i32x4_extmul_high_i16x8(a, b) == V4(LAMBDA k : S16(a[k + 4]) * S16(b[k + 4]))

\* arithmetic shift right: floor division by 2^n
wasm_i32x4_shr(v, n) == V4(LAMBDA k : v[k] \div (2 ^ n))

\* signed saturation of eight 32-bit lanes to 16 bits
wasm_i16x8_narrow_i32x4(a, b) ==
    LET sat(x) == IF x > 32767 THEN 32767 ELSE IF x < -32768 THEN -32768 ELSE x
    IN  V8(LAMBDA k : U16(sat(IF k < 4 THEN a[k] ELSE b[k - 4])))

(***************************************************************************)
(* Inputs: the colors, pixel blocks and coverage masks the model draws     *)
(***************************************************************************)
Colors ==
    { Color(0, 0, 0, 0), Color(10, 10, 10, 255), Color(10, 10, 10, 0),
      Color(200, 0, 0, 0), Color(255, 255, 255, 255) }

\* the pixel values a block is made of
PixelColors == { Color(0, 0, 0, 0), Color(10, 10, 10, 255), Color(255, 255, 255, 255) }

PixelIdx == 0..(CHAFA_SYMBOL_N_PIXELS - 1)

\* which pixels of a block take the first of two values
Stripe(s) == [p \in PixelIdx |-> (p \div s) % 2 = 0]

Layouts ==
    { Stripe(1), Stripe(2), Stripe(8), Stripe(CHAFA_SYMBOL_N_PIXELS),
      [p \in PixelIdx |-> p % 3 = 0], [p \in PixelIdx |-> FALSE] }

Block(pA, pB, L) == [p \in PixelIdx |-> IF L[p] THEN pA ELSE pB]

Blocks == { Block(pA, pB, L) : pA \in PixelColors, pB \in PixelColors, L \in Layouts }

\* sym_mask_u32: one guint32 per pixel, all-ones where the symbol covers it
MaskWord(set) == V4(LAMBDA c : IF set THEN 255 ELSE 0)

Masks == { [p \in PixelIdx |-> MaskWord(L[p])] : L \in Layouts }

ColorPairs == [fg : Colors, bg : Colors]

\* the guint32 holding a color's four bytes in memory order
chafa_color8_to_u32(c) == c

(***************************************************************************)
(* chafa_calc_cell_error_wasm_simd                                         *)
(***************************************************************************)
\* |pixel - selected| per byte for the four pixels at px[j..j+3]
ErrAbsDiff(px, pair, msk, j) ==
    LET fg_packed == wasm_v128_load32_splat(chafa_color8_to_u32(pair.fg))
        bg_packed == wasm_v128_load32_splat(chafa_color8_to_u32(pair.bg))
        pix0      == wasm_v128_load(px, j)
        mask0     == wasm_v128_load(msk, j)
        selected0 == wasm_v128_bitselect(fg_packed, bg_packed, mask0)
        diff0_lo  == wasm_u8x16_sub_sat(pix0, selected0)
        diff0_hi  == wasm_u8x16_sub_sat(selected0, pix0)
    IN  wasm_v128_or(diff0_lo, diff0_hi)

\* widen one half of the absolute differences, square, add pairwise to i32
ErrSquareSum(d) == wasm_i32x4_extadd_pairwise_i16x8(wasm_i16x8_mul(d, d))

\* the partial sums of the eight pixels px[j..j+7]
ErrPartial(px, pair, msk, j) ==
    LET abs_diff0 == ErrAbsDiff(px, pair, msk, j)
        abs_diff1 == ErrAbsDiff(px, pair, msk, j + 4)
        sum0_lo   == ErrSquareSum(wasm_u16x8_extend_low_u8x16(abs_diff0))
        sum0_hi   == ErrSquareSum(wasm_u16x8_extend_high_u8x16(abs_diff0))
        sum1_lo   == ErrSquareSum(wasm_u16x8_extend_low_u8x16(abs_diff1))
        sum1_hi   == ErrSquareSum(wasm_u16x8_extend_high_u8x16(abs_diff1))
    IN  wasm_i32x4_add(wasm_i32x4_add(wasm_i32x4_add(sum0_lo, sum0_hi), sum1_lo), sum1_hi)

\* err_accum after adding one iteration's partial and its pair-swapped copy
ErrAccumulate(acc, part) ==
    LET shuffled == wasm_i32x4_shuffle(part, part, 1, 0, 3, 2)
    IN  wasm_i32x4_add(wasm_i32x4_add(acc, part), shuffled)

\* the horizontal sum of the four lanes, read from lane 0
ErrHorizontalSum(acc) ==
    LET sum1 == wasm_i32x4_add(acc, wasm_i32x4_shuffle(acc, acc, 2, 3, 0, 1))
        sum2 == wasm_i32x4_add(sum1, wasm_i32x4_shuffle(sum1, sum1, 1, 0, 3, 2))
    IN  wasm_i32x4_extract_lane(sum2, 0)

(***************************************************************************)
(* chafa_extract_cell_mean_colors_wasm_simd                                *)
(***************************************************************************)
\* the four i16x8 accumulators before the loop
MeanInit ==
    [fg_lo |-> wasm_i16x8_splat(0), fg_hi |-> wasm_i16x8_splat(0),
     bg_lo |-> wasm_i16x8_splat(0), bg_hi |-> wasm_i16x8_splat(0)]

\* one loop iteration: the four pixels px[j..j+3]
MeanIter(acc, px, msk, j) ==
    LET pix      == wasm_v128_load(px, j)
        mask     == wasm_v128_load(msk, j)
        fg_pix   == wasm_v128_and(pix, mask)
        bg_pix   == wasm_v128_andnot(pix, mask)
        fg_16_lo == wasm_u16x8_extend_low_u8x16(fg_pix)
        fg_16_hi == wasm_u16x8_extend_high_u8x16(fg_pix)
        bg_16_lo == wasm_u16x8_extend_low_u8x16(bg_pix)
        bg_16_hi == wasm_u16x8_extend_high_u8x16(bg_pix)
    IN  [fg_lo |-> wasm_i16x8_add(acc.fg_lo, fg_16_lo),
         fg_hi |-> wasm_i16x8_add(acc.fg_hi, fg_16_hi),
         bg_lo |-> wasm_i16x8_add(acc.bg_lo, bg_16_lo),
         bg_hi |-> wasm_i16x8_add(acc.bg_hi, bg_16_hi)]

\* lo + hi, then the two halves of the register added together
MeanCombine(lo, hi) ==
    LET accum_16 == wasm_i16x8_add(lo, hi)
    IN  [accum_16 |-> accum_16,
         sum      |-> wasm_i16x8_add(accum_16,
                        wasm_i16x8_shuffle(accum_16, accum_16, <<4, 5, 6, 7, 0, 1, 2, 3>>))]

\* a ChafaColorAccum channel holds a gint16
StoreAccumCh(x) == S16(U16(x))

\* the widened lanes 0..3 of a sum stored to a ChafaColorAccum
MeanStore(sum) ==
    LET v_32 == wasm_i32x4_extend_low_i16x8(sum)
    IN  V4(LAMBDA c : StoreAccumCh(wasm_i32x4_extract_lane(v_32, c)))

\* accums_out[0] receives the background sums, accums_out[1] the foreground sums
MeanAccumsOut(acc) ==
    [k \in 0..1 |-> IF k = 0 THEN MeanStore(MeanCombine(acc.bg_lo, acc.bg_hi).sum)
                             ELSE MeanStore(MeanCombine(acc.fg_lo, acc.fg_hi).sum)]

(***************************************************************************)
(* invdiv16 and chafa_color_accum_div_scalar_wasm_simd                     *)
(***************************************************************************)
InvDiv16Table ==
    <<
      0, 32768, 16384, 10922, 8192, 6553, 5461, 4681, 4096, 3640, 3276,
      2978, 2730, 2520, 2340, 2184, 2048, 1927, 1820, 1724, 1638, 1560,
      1489, 1424, 1365, 1310, 1260, 1213, 1170, 1129, 1092, 1057, 1024,
      992, 963, 936, 910, 885, 862, 840, 819, 799, 780, 762, 744, 728,
      712, 697, 682, 668, 655, 642, 630, 618, 606, 595, 585, 574, 564,
      555, 546, 537, 528, 520, 512, 504, 496, 489, 481, 474, 468, 461,
      455, 448, 442, 436, 431, 425, 420, 414, 409, 404, 399, 394, 390,
      385, 381, 376, 372, 368, 364, 360, 356, 352, 348, 344, 341, 337,
      334, 330, 327, 324, 321, 318, 315, 312, 309, 306, 303, 300, 297,
      295, 292, 289, 287, 284, 282, 280, 277, 275, 273, 270, 268, 266,
      264, 262, 260, 258, 256, 254, 252, 250, 248, 246, 244, 242, 240,
      239, 237, 235, 234, 232, 230, 229, 227, 225, 224, 222, 221, 219,
      218, 217, 215, 214, 212, 211, 210, 208, 207, 206, 204, 203, 202,
      201, 199, 198, 197, 196, 195, 193, 192, 191, 190, 189, 188, 187,
      186, 185, 184, 183, 182, 181, 180, 179, 178, 177, 176, 175, 174,
      173, 172, 171, 170, 169, 168, 168, 167, 166, 165, 164, 163, 163,
      162, 161, 160, 159, 159, 158, 157, 156, 156, 155, 154, 153, 153,
      152, 151, 151, 150, 149, 148, 148, 147, 146, 146, 145, 144, 144,
      143, 143, 142, 141, 141, 140, 140, 139, 138, 138, 137, 137, 136,
      135, 135, 134, 134, 133, 133, 132, 132, 131, 131, 130, 130, 129,
      129, 128, 128
    >>

\* a table without the zero convention for index 0
invdiv16_no_zero(d) == IF d = 0 THEN 32767 ELSE InvDiv16Table[d + 1]

\* a table of reciprocals rounded to nearest
invdiv16_rounded(d) == IF d = 0 THEN 0 ELSE (2 * 32768 + d) \div (2 * d)

\* invdiv16[d]
invdiv16(d) == InvDiv16Table[d + 1]

\* the 64-bit load: the four gint16 channels in lanes 0..3, zero above
wasm_v128_load64_zero(accum) == V8(LAMBDA k : IF k < 4 THEN U16(accum[k]) ELSE 0)

\* lanes 0..3 of the result written back over the four channels
wasm_i64x2_extract_lane(v, k) == V4(LAMBDA c : S16(v[4 * k + c]))

chafa_color_accum_div_scalar_wasm_simd(accum, divisor) ==
    LET acc      == wasm_v128_load64_zero(accum)
        div      == wasm_i16x8_splat(invdiv16(divisor))
        round    == wasm_i32x4_splat(16384)
        prod_lo  == wasm_i32x4_shr(wasm_i32x4_add(wasm_i32x4_extmul_low_i16x8(acc, div), round), 15)
        prod_hi  == wasm_i32x4_shr(wasm_i32x4_add(wasm_i32x4_extmul_high_i16x8(acc, div), round), 15)
        result   == wasm_i16x8_narrow_i32x4(prod_lo, prod_hi)
    IN  wasm_i64x2_extract_lane(result, 0)

(***************************************************************************)
(* chafa_color_diff_4x_wasm_simd                                           *)
(***************************************************************************)
\* best_dist = 0x7FFFFFFF, best_idx = 0
DiffInit == [dist |-> 2147483647, idx |-> 0]

\* [dist, dist, dist', dist'] for the two colors held in one widened half
DiffTotal(pal_half, target_16_lo) ==
    LET diff == wasm_i16x8_sub(pal_half, target_16_lo)
        sq   == wasm_i16x8_mul(diff, diff)
        sum  == wasm_i32x4_extadd_pairwise_i16x8(sq)
    IN  wasm_i32x4_add(sum, wasm_i32x4_shuffle(sum, sum, 1, 0, 3, 2))

\* d0..d3 of the four palette entries palette[j..j+3]
DiffDists(tgt, pal, j) ==
    LET target_16_lo == wasm_u16x8_extend_low_u8x16(wasm_v128_load32_splat(tgt))
        palv         == wasm_v128_load(pal, j)
        total_lo     == DiffTotal(wasm_u16x8_extend_low_u8x16(palv), target_16_lo)
        total_hi     == DiffTotal(wasm_u16x8_extend_high_u8x16(palv), target_16_lo)
    IN  <<wasm_i32x4_extract_lane(total_lo, 0), wasm_i32x4_extract_lane(total_lo, 2),
          wasm_i32x4_extract_lane(total_hi, 0), wasm_i32x4_extract_lane(total_hi, 2)>>

\* if (d < best_dist) { best_dist = d; best_idx = k; }
DiffTake(best, d, k) == IF d < best.dist THEN [dist |-> d, idx |-> k] ELSE best

\* one iteration of the four-at-a-time loop
DiffIter4(best, tgt, pal, j) ==
    LET d == DiffDists(tgt, pal, j)
    IN  DiffTake(DiffTake(DiffTake(DiffTake(best, d[1], j), d[2], j + 1), d[3], j + 2), d[4], j + 3)

\* one iteration of the remainder loop
DiffIter1(best, tgt, pal, j) ==
    LET dr   == pal[j][R] - tgt[R]
        dg   == pal[j][G] - tgt[G]
        db   == pal[j][B] - tgt[B]
        dist == dr * dr + dg * dg + db * db
    IN  DiffTake(best, dist, j)

(***************************************************************************)
(* chafa_work_cell_to_bitmap_wasm_simd                                     *)
(* The guint64 bitmap is four 16-bit limbs, limb 0 the least significant.  *)
(***************************************************************************)
BitmapZero == V4(LAMBDA l : 0)

\* bitmap <<= 4, the bits shifted out of limb 3 are lost
BitmapShl4(w) ==
    V4(LAMBDA l : ((w[l] * 16) % 65536) + (IF l > 0 THEN w[l - 1] \div 4096 ELSE 0))

\* bitmap |= v for a v below 2^16
BitmapOr(w, v) == V4(LAMBDA l : IF l = 0 THEN BitOr(w[0], v, 16) ELSE w[l])

\* bit b (0 the least significant) of the bitmap
BitmapBit(w, b) == (w[b \div 16] \div (2 ^ (b % 16))) % 2

\* [dist, dist, dist', dist'] of the two pixels of one widened half to a color
BitmapDist(pix_half, col_16) ==
    LET diff == wasm_i16x8_sub(pix_half, col_16)
        sq   == wasm_i16x8_mul(diff, diff)
        sum  == wasm_i32x4_extadd_pairwise_i16x8(sq)
    IN  wasm_i32x4_add(sum, wasm_i32x4_shuffle(sum, sum, 1, 0, 3, 2))

\* the comparisons bg0 > fg0, .., bg3 > fg3 for the pixels px[j..j+3]
BitmapCompare(px, pair, j) ==
    LET fg_16      == wasm_u16x8_extend_low_u8x16(wasm_v128_load32_splat(pair.fg))
        bg_16      == wasm_u16x8_extend_low_u8x16(wasm_v128_load32_splat(pair.bg))
        pix        == wasm_v128_load(px, j)
        pix_lo     == wasm_u16x8_extend_low_u8x16(pix)
        pix_hi     == wasm_u16x8_extend_high_u8x16(pix)
        bg_dist_lo == BitmapDist(pix_lo, bg_16)
        fg_dist_lo == BitmapDist(pix_lo, fg_16)
        bg_dist_hi == BitmapDist(pix_hi, bg_16)
        fg_dist_hi == BitmapDist(pix_hi, fg_16)
    IN  <<wasm_i32x4_extract_lane(bg_dist_lo, 0) > wasm_i32x4_extract_lane(fg_dist_lo, 0),
          wasm_i32x4_extract_lane(bg_dist_lo, 2) > wasm_i32x4_extract_lane(fg_dist_lo, 2),
          wasm_i32x4_extract_lane(bg_dist_hi, 0) > wasm_i32x4_extract_lane(fg_dist_hi, 0),
          wasm_i32x4_extract_lane(bg_dist_hi, 2) > wasm_i32x4_extract_lane(fg_dist_hi, 2)>>

\* the four bits of a group in the opposite order
BitmapPack_reversed(w, cmp) ==
    LET b0 == BitmapShl4(w)
        b1 == IF cmp[1] THEN BitmapOr(b0, 1) ELSE b0
        b2 == IF cmp[2] THEN BitmapOr(b1, 2) ELSE b1
        b3 == IF cmp[3] THEN BitmapOr(b2, 4) ELSE b2
    IN  IF cmp[4] THEN BitmapOr(b3, 8) ELSE b3

\* bitmap <<= 4 and the four conditional ORs
BitmapPack(w, cmp) ==
    LET b0 == BitmapShl4(w)
        b1 == IF cmp[1] THEN BitmapOr(b0, 8) ELSE b0
        b2 == IF cmp[2] THEN BitmapOr(b1, 4) ELSE b1
        b3 == IF cmp[3] THEN BitmapOr(b2, 2) ELSE b2
    IN  IF cmp[4] THEN BitmapOr(b3, 1) ELSE b3

\* one loop iteration
BitmapIter(w, px, pair, j) == BitmapPack(w, BitmapCompare(px, pair, j))

(***************************************************************************)
(* State                                                                   *)
(*   pc            which kernel is running and where it stands             *)
(*   i             the loop index of the running kernel                    *)
(*   pixels, sym_mask_u32, color_pair, target, palette, n_colors, divisor  *)
(*                 the arguments of the call                               *)
(*   accum_in      the ChafaColorAccum as passed to the divider            *)
(*   accum         the ChafaColorAccum the divider works on in place       *)
(*   err_accum, partial   calc_cell_error's accumulator and last partial   *)
(*   macc          extract_cell_mean_colors' four i16x8 accumulators       *)
(*   accums_out    extract_cell_mean_colors' output array                  *)
(*   best          color_diff's best_dist / best_idx                       *)
(*   bitmap        cell_to_bitmap's guint64                                *)
(*   ret           the value returned                                      *)
(*   shadow        the same call on the arguments with every alpha byte    *)
(*                 cleared, run side by side: its accumulator, then its    *)
(*                 return value                                            *)
(***************************************************************************)
VARIABLES pc, i, pixels, sym_mask_u32, color_pair, target, palette, n_colors,
          divisor, accum_in, accum, err_accum, partial, macc, accums_out,
          best, bitmap, ret, shadow

vars == <<pc, i, pixels, sym_mask_u32, color_pair, target, palette, n_colors,
          divisor, accum_in, accum, err_accum, partial, macc, accums_out,
          best, bitmap, ret, shadow>>

args == <<pixels, sym_mask_u32, color_pair, target, palette, n_colors, divisor, accum_in>>

\* a variable the running kernel does not have
None == <<>>

(***************************************************************************)
(* chafa_calc_cell_error_wasm_simd, one loop iteration per step            *)
(***************************************************************************)
ErrInit ==
    /\ pc = "err_loop"
    /\ i = 0
    /\ pixels \in Blocks
    /\ sym_mask_u32 \in Masks
    /\ color_pair \in ColorPairs
    /\ err_accum = wasm_i32x4_splat(0)
    /\ partial = wasm_i32x4_splat(0)
    /\ ret = 0
    /\ target = None /\ palette = None /\ n_colors = 0 /\ divisor = 0
    /\ accum_in = None /\ accum = None /\ macc = None /\ accums_out = None
    /\ best = None /\ bitmap = None
    /\ shadow = wasm_i32x4_splat(0)

ErrStep ==
    /\ pc = "err_loop"
    /\ i < CHAFA_SYMBOL_N_PIXELS
    /\ partial' = ErrPartial(pixels, color_pair, sym_mask_u32, i)
    /\ err_accum' = ErrAccumulate(err_accum, partial')
    /\ i' = i + 8
    /\ UNCHANGED <<pc, args, accum, macc, accums_out, best, bitmap, ret>>

ErrReturn ==
    /\ pc = "err_loop"
    /\ ~(i < CHAFA_SYMBOL_N_PIXELS)
    /\ ret' = ErrHorizontalSum(err_accum)
    /\ pc' = "err_done"
    /\ UNCHANGED <<i, args, accum, err_accum, partial, macc, accums_out, best, bitmap>>

ErrNext ==
    \/ ErrStep /\ UNCHANGED shadow
    \/ ErrReturn /\ UNCHANGED shadow

SpecErr == ErrInit /\ [][ErrNext]_vars

(***************************************************************************)
(* chafa_extract_cell_mean_colors_wasm_simd, one loop iteration per step   *)
(***************************************************************************)
MeanStart ==
    /\ pc = "mean_loop"
    /\ i = 0
    /\ pixels \in Blocks
    /\ sym_mask_u32 \in Masks
    /\ macc = MeanInit
    /\ accums_out = [k \in 0..1 |-> [c \in 0..3 |-> 0]]
    /\ color_pair = None /\ target = None /\ palette = None /\ n_colors = 0
    /\ divisor = 0 /\ accum_in = None /\ accum = None
    /\ err_accum = None /\ partial = None /\ best = None /\ bitmap = None /\ ret = 0
    /\ shadow = None

MeanStep ==
    /\ pc = "mean_loop"
    /\ i < CHAFA_SYMBOL_N_PIXELS
    /\ macc' = MeanIter(macc, pixels, sym_mask_u32, i)
    /\ i' = i + 4
    /\ UNCHANGED <<pc, args, accum, err_accum, partial, accums_out, best, bitmap, ret>>

MeanReturn ==
    /\ pc = "mean_loop"
    /\ ~(i < CHAFA_SYMBOL_N_PIXELS)
    /\ accums_out' = MeanAccumsOut(macc)
    /\ pc' = "mean_done"
    /\ UNCHANGED <<i, args, accum, err_accum, partial, macc, best, bitmap, ret>>

MeanNext ==
    \/ MeanStep /\ UNCHANGED shadow
    \/ MeanReturn /\ UNCHANGED shadow

SpecMean == MeanStart /\ [][MeanNext]_vars

(***************************************************************************)
(* chafa_color_accum_div_scalar_wasm_simd                                  *)
(***************************************************************************)
\* the largest channel sum of a cell: 64 pixels of 255
MaxAccum == CHAFA_SYMBOL_N_PIXELS * 255

AccumSample == {0, 5, 100, MaxAccum}

\* divisors tried with every channel value 0..MaxAccum
EdgeDivisors == {0, 1, 2, 10, 256}

Divisors == 0..256

DivStart ==
    /\ pc = "div_call"
    /\ \/ accum_in \in [0..3 -> AccumSample] /\ divisor \in Divisors
       \/ accum_in \in { [c \in 0..3 |-> v] : v \in 0..MaxAccum } /\ divisor \in EdgeDivisors
    /\ accum = accum_in
    /\ i = 0 /\ ret = 0
    /\ pixels = None /\ sym_mask_u32 = None /\ color_pair = None
    /\ target = None /\ palette = None /\ n_colors = 0
    /\ err_accum = None /\ partial = None /\ macc = None /\ accums_out = None
    /\ best = None /\ bitmap = None /\ shadow = None

DivScalar ==
    /\ pc = "div_call"
    /\ accum' = chafa_color_accum_div_scalar_wasm_simd(accum, divisor)
    /\ pc' = "div_done"
    /\ UNCHANGED <<i, args, err_accum, partial, macc, accums_out, best, bitmap, ret>>

DivNext == DivScalar /\ UNCHANGED shadow

SpecDiv == DivStart /\ [][DivNext]_vars

(***************************************************************************)
(* chafa_color_diff_4x_wasm_simd, one loop iteration per step              *)
(***************************************************************************)
Palettes(n) == [0..(n - 1) -> Colors]

DiffStart ==
    /\ pc = "diff_loop"
    /\ i = 0
    /\ target \in Colors
    /\ n_colors \in 1..MaxColors
    /\ palette \in Palettes(n_colors)
    /\ best = DiffInit
    /\ ret = 0
    /\ pixels = None /\ sym_mask_u32 = None /\ color_pair = None /\ divisor = 0
    /\ accum_in = None /\ accum = None /\ err_accum = None /\ partial = None
    /\ macc = None /\ accums_out = None /\ bitmap = None
    /\ shadow = DiffInit

DiffStep4 ==
    /\ pc = "diff_loop"
    /\ i + 4 <= n_colors
    /\ best' = DiffIter4(best, target, palette, i)
    /\ i' = i + 4
    /\ UNCHANGED <<pc, args, accum, err_accum, partial, macc, accums_out, bitmap, ret>>

DiffStep1 ==
    /\ pc \in {"diff_loop", "diff_rest"}
    /\ ~(i + 4 <= n_colors)
    /\ i < n_colors
    /\ best' = DiffIter1(best, target, palette, i)
    /\ i' = i + 1
    /\ pc' = "diff_rest"
    /\ UNCHANGED <<args, accum, err_accum, partial, macc, accums_out, bitmap, ret>>

DiffReturn ==
    /\ pc \in {"diff_loop", "diff_rest"}
    /\ ~(i + 4 <= n_colors)
    /\ ~(i < n_colors)
    /\ ret' = best.idx
    /\ pc' = "diff_done"
    /\ UNCHANGED <<i, args, accum, err_accum, partial, macc, accums_out, best, bitmap>>

DiffNext ==
    \/ DiffStep4 /\ UNCHANGED shadow
    \/ DiffStep1 /\ UNCHANGED shadow
    \/ DiffReturn /\ UNCHANGED shadow

SpecDiff == DiffStart /\ [][DiffNext]_vars

(***************************************************************************)
(* chafa_work_cell_to_bitmap_wasm_simd, one loop iteration per step        *)
(***************************************************************************)
BitmapStart ==
    /\ pc = "bitmap_loop"
    /\ i = 0
    /\ pixels \in Blocks
    /\ color_pair \in ColorPairs
    /\ bitmap = BitmapZero
    /\ ret = BitmapZero
    /\ sym_mask_u32 = None /\ target = None /\ palette = None /\ n_colors = 0
    /\ divisor = 0 /\ accum_in = None /\ accum = None /\ err_accum = None
    /\ partial = None /\ macc = None /\ accums_out = None /\ best = None
    /\ shadow = BitmapZero

BitmapStep ==
    /\ pc = "bitmap_loop"
    /\ i < CHAFA_SYMBOL_N_PIXELS
    /\ bitmap' = BitmapIter(bitmap, pixels, color_pair, i)
    /\ i' = i + 4
    /\ UNCHANGED <<pc, args, accum, err_accum, partial, macc, accums_out, best, ret>>

BitmapReturn ==
    /\ pc = "bitmap_loop"
    /\ ~(i < CHAFA_SYMBOL_N_PIXELS)
    /\ ret' = bitmap
    /\ pc' = "bitmap_done"
    /\ UNCHANGED <<i, args, accum, err_accum, partial, macc, accums_out, best, bitmap>>

BitmapNext ==
    \/ BitmapStep /\ UNCHANGED shadow
    \/ BitmapReturn /\ UNCHANGED shadow

SpecBitmap == BitmapStart /\ [][BitmapNext]_vars

(***************************************************************************)
(* The three distance kernels, each call run side by side with the same    *)
(* call on the arguments with every alpha byte cleared                     *)
(***************************************************************************)
StripAlpha(c) == [c EXCEPT ![A] = 0]

StripAll(arr) == [p \in DOMAIN arr |-> StripAlpha(arr[p])]

StripPair(pair) == [fg |-> StripAlpha(pair.fg), bg |-> StripAlpha(pair.bg)]

DistInit == ErrInit \/ DiffStart \/ BitmapStart

DistErrStep ==
    /\ ErrStep
    /\ shadow' = ErrAccumulate(shadow, ErrPartial(StripAll(pixels), StripPair(color_pair),
                                                  sym_mask_u32, i))

DistErrReturn == ErrReturn /\ shadow' = ErrHorizontalSum(shadow)

DistDiffStep4 ==
    /\ DiffStep4
    /\ shadow' = DiffIter4(shadow, StripAlpha(target), StripAll(palette), i)

DistDiffStep1 ==
    /\ DiffStep1
    /\ shadow' = DiffIter1(shadow, StripAlpha(target), StripAll(palette), i)

DistDiffReturn == DiffReturn /\ shadow' = shadow.idx

DistBitmapStep ==
    /\ BitmapStep
    /\ shadow' = BitmapIter(shadow, StripAll(pixels), StripPair(color_pair), i)

DistBitmapReturn == BitmapReturn /\ UNCHANGED shadow

DistNext ==
    \/ DistErrStep \/ DistErrReturn
    \/ DistDiffStep4 \/ DistDiffStep1 \/ DistDiffReturn
    \/ DistBitmapStep \/ DistBitmapReturn

SpecDist == DistInit /\ [][DistNext]_vars

(***************************************************************************)
(* Reference definitions the claims are stated with                        *)
(***************************************************************************)
Sq(x) == x * x

\* squared distance over R, G and B only
RgbDist(p, c) == Sq(p[R] - c[R]) + Sq(p[G] - c[G]) + Sq(p[B] - c[B])

\* pixel p is covered when its mask word is set
Covered(msk, p) == msk[p] = MaskWord(TRUE)

RECURSIVE RefErrorUpTo(_, _, _, _)
RefErrorUpTo(px, pair, msk, n) ==
    IF n = 0 THEN 0
    ELSE RefErrorUpTo(px, pair, msk, n - 1)
         + RgbDist(px[n - 1], IF Covered(msk, n - 1) THEN pair.fg ELSE pair.bg)

RefError(px, pair, msk) == RefErrorUpTo(px, pair, msk, CHAFA_SYMBOL_N_PIXELS)

\* the sum of channel c over the first n pixels that are (want = TRUE) or are not covered
RECURSIVE RefChannelSum(_, _, _, _, _)
RefChannelSum(px, msk, want, c, n) ==
    IF n = 0 THEN 0
    ELSE RefChannelSum(px, msk, want, c, n - 1)
         + (IF Covered(msk, n - 1) = want THEN px[n - 1][c] ELSE 0)

\* the sum of channel c over all of the first n pixels
RECURSIVE RefChannelTotal(_, _, _)
RefChannelTotal(px, c, n) ==
    IF n = 0 THEN 0 ELSE RefChannelTotal(px, c, n - 1) + px[n - 1][c]

\* v / d rounded to nearest, halves up
RoundDiv(v, d) == (2 * v + d) \div (2 * d)

\* the index a strictly sequential scan returns: the first of the nearest entries
RefNearest(tgt, pal, n) ==
    CHOOSE k \in 0..(n - 1) :
        \A j \in 0..(n - 1) :
            \/ RgbDist(pal[k], tgt) < RgbDist(pal[j], tgt)
            \/ RgbDist(pal[k], tgt) = RgbDist(pal[j], tgt) /\ k <= j

(***************************************************************************)
(* C1: when chafa_calc_cell_error_wasm_simd returns, the value is the sum  *)
(* over the 64 pixels and over R, G, B only of (pixel - target)^2, the     *)
(* target being the foreground color where the mask is set and the         *)
(* background color elsewhere.                                             *)
(***************************************************************************)
C1_ErrorIsRgbSquaredError ==
    pc = "err_done" => ret = RefError(pixels, color_pair, sym_mask_u32)

(***************************************************************************)
(* C2: alpha bytes do not influence the distance kernels: each of          *)
(* calc_cell_error, color_diff_4x and work_cell_to_bitmap returns what the *)
(* same call returns on the arguments with every alpha byte cleared.       *)
(***************************************************************************)
C2_AlphaDoesNotInfluence ==
    pc \in {"err_done", "diff_done", "bitmap_done"} => ret = shadow

(***************************************************************************)
(* C3: extract_cell_mean_colors writes to accums_out[1] the four channel   *)
(* sums of exactly the covered pixels and to accums_out[0] those of the    *)
(* uncovered pixels, the two adding up to the sums over the whole block,   *)
(* and no 16-bit lane of an accumulator or of their combinations exceeds   *)
(* 16320 at any point of the loop.                                         *)
(***************************************************************************)
LanesBounded(v) == \A k \in 0..7 : v[k] <= MaxAccum

C3_MeanSumsPartition ==
    /\ pc \in {"mean_loop", "mean_done"} =>
         LET fg == MeanCombine(macc.fg_lo, macc.fg_hi)
             bg == MeanCombine(macc.bg_lo, macc.bg_hi)
         IN  /\ LanesBounded(macc.fg_lo) /\ LanesBounded(macc.fg_hi)
             /\ LanesBounded(macc.bg_lo) /\ LanesBounded(macc.bg_hi)
             /\ LanesBounded(fg.accum_16) /\ LanesBounded(fg.sum)
             /\ LanesBounded(bg.accum_16) /\ LanesBounded(bg.sum)
             /\ \A c \in 0..3 :
                  /\ fg.sum[c] = RefChannelSum(pixels, sym_mask_u32, TRUE, c, i)
                  /\ bg.sum[c] = RefChannelSum(pixels, sym_mask_u32, FALSE, c, i)
    /\ pc = "mean_done" =>
         \A c \in 0..3 :
            /\ accums_out[1][c] =
                 RefChannelSum(pixels, sym_mask_u32, TRUE, c, CHAFA_SYMBOL_N_PIXELS)
            /\ accums_out[0][c] =
                 RefChannelSum(pixels, sym_mask_u32, FALSE, c, CHAFA_SYMBOL_N_PIXELS)
            /\ accums_out[0][c] + accums_out[1][c] =
                 RefChannelTotal(pixels, c, CHAFA_SYMBOL_N_PIXELS)

\* a finished call on a block with covered and uncovered non-black pixels
C3_Witness ==
    /\ pc = "mean_done"
    /\ accums_out[1][R] > 0
    /\ accums_out[0][R] > 0
    /\ accums_out[1][A] # accums_out[0][A]

(***************************************************************************)
(* C4: color_accum_div_scalar replaces every channel v by v / d rounded    *)
(* to nearest with halves up when d > 0, and by 0 when d = 0.              *)
(***************************************************************************)
C4_DivRoundsHalfUp ==
    pc = "div_done" =>
        \A c \in 0..3 :
            accum[c] = IF divisor = 0 THEN 0 ELSE RoundDiv(accum_in[c], divisor)

(***************************************************************************)
(* C5: a call of color_accum_div_scalar with divisor 0 returns with all    *)
(* four channels 0, whatever sums the accumulator held.                    *)
(***************************************************************************)
C5_DivByZeroIsZero ==
    (pc = "div_done" /\ divisor = 0) => \A c \in 0..3 : accum[c] = 0

\* a finished division by zero of an accumulator holding the largest sums
C5_Witness ==
    /\ pc = "div_done"
    /\ divisor = 0
    /\ \A c \in 0..3 : accum_in[c] = MaxAccum /\ accum[c] = 0

(***************************************************************************)
(* C6: color_diff_4x returns the smallest index among the palette entries  *)
(* nearest to the target in squared RGB distance.                          *)
(***************************************************************************)
C6_NearestLowestIndex ==
    pc = "diff_done" => ret = RefNearest(target, palette, n_colors)

(***************************************************************************)
(* C7: in the bitmap returned by work_cell_to_bitmap the bit of pixel p    *)
(* (bit 63 - p) is set exactly when the pixel's squared RGB distance to    *)
(* the foreground is strictly less than its distance to the background.    *)
(***************************************************************************)
C7_BitIffCloserToForeground ==
    pc = "bitmap_done" =>
        \A p \in PixelIdx :
            (BitmapBit(ret, CHAFA_SYMBOL_N_PIXELS - 1 - p) = 1)
              <=> (RgbDist(pixels[p], color_pair.fg) < RgbDist(pixels[p], color_pair.bg))

(***************************************************************************)
(* C8 as written: invdiv16[d] is 32768 / d rounded to nearest for every    *)
(* divisor d in 1..256 a call looks up.                                    *)
(***************************************************************************)
C8_TableIsRounded ==
    /\ Len(InvDiv16Table) = 257
    /\ invdiv16(0) = 0
    /\ divisor \in 1..256 => invdiv16(divisor) = RoundDiv(32768, divisor)

(***************************************************************************)
(* C8 amended: invdiv16 has 257 entries, invdiv16[0] = 0, and for every    *)
(* divisor d in 1..256 a call looks up invdiv16[d] is 32768 / d rounded    *)
(* down.                                                                   *)
(***************************************************************************)
C8_TableIsFloor ==
    /\ Len(InvDiv16Table) = 257
    /\ (divisor + 1) \in DOMAIN InvDiv16Table
    /\ invdiv16(0) = 0
    /\ divisor \in 1..256 => invdiv16(divisor) = 32768 \div divisor

\* a finished division by 3, where rounding down and to nearest differ
C8_Witness ==
    /\ pc = "div_done"
    /\ divisor = 3
    /\ invdiv16(divisor) = 10922
    /\ RoundDiv(32768, divisor) = 10923

(***************************************************************************)
(* C9: in calc_cell_error no lane overflows: each lane of an iteration's   *)
(* partial sums is the exact sum of the squared byte differences it        *)
(* stands for, and the returned error lies in 0 .. 64 * 3 * 65025.         *)
(***************************************************************************)
\* the exact squared difference of channel c of pixel p to its selected color
ExactSq(px, pair, msk, p, c) ==
    Sq(px[p][c] - (IF Covered(msk, p) THEN pair.fg[c] ELSE pair.bg[c]))

\* lane k of partial covers channels 2(k%2), 2(k%2)+1 of pixels j + (k \div 2) + {0,2,4,6}
ExactPartial(px, pair, msk, j, k) ==
    LET p0 == j + (k \div 2)
        c0 == 2 * (k % 2)
        pairSum(p) == ExactSq(px, pair, msk, p, c0) + ExactSq(px, pair, msk, p, c0 + 1)
    IN  pairSum(p0) + pairSum(p0 + 2) + pairSum(p0 + 4) + pairSum(p0 + 6)

C9_ErrorNeverOverflows ==
    /\ (pc \in {"err_loop", "err_done"} /\ i > 0) =>
         \A k \in 0..3 :
            partial[k] = ExactPartial(pixels, color_pair, sym_mask_u32, i - 8, k)
    /\ pc = "err_done" => (0 <= ret /\ ret <= CHAFA_SYMBOL_N_PIXELS * 3 * 65025)

(***************************************************************************)
(* C10: work_cell_to_bitmap packs the comparisons in one fixed order:      *)
(* after the pixels 0..i-1 have been processed, bit i-1-p of the bitmap is *)
(* the comparison of pixel p for every p < i and all higher bits are 0;    *)
(* in the returned value the comparison of pixel p is bit 63 - p.          *)
(***************************************************************************)
C10_BitOrder ==
    /\ pc = "bitmap_loop" =>
         /\ \A l \in 0..3 : bitmap[l] \in 0..65535
         /\ \A b \in i..(CHAFA_SYMBOL_N_PIXELS - 1) : BitmapBit(bitmap, b) = 0
         /\ \A g \in 0..((i \div 4) - 1) :
              LET cmp == BitmapCompare(pixels, color_pair, 4 * g)
              IN  \A q \in 0..3 :
                     BitmapBit(bitmap, i - 1 - (4 * g + q)) = (IF cmp[q + 1] THEN 1 ELSE 0)
    /\ pc = "bitmap_done" =>
         \A g \in 0..15 :
            LET cmp == BitmapCompare(pixels, color_pair, 4 * g)
            IN  \A q \in 0..3 :
                   BitmapBit(ret, CHAFA_SYMBOL_N_PIXELS - 1 - (4 * g + q))
                     = (IF cmp[q + 1] THEN 1 ELSE 0)

\* a returned bitmap whose first group of pixels compares 1, 0, 1, 0
C10_Witness ==
    /\ pc = "bitmap_done"
    /\ BitmapCompare(pixels, color_pair, 0) = <<TRUE, FALSE, TRUE, FALSE>>
    /\ BitmapBit(ret, 63) = 1 /\ BitmapBit(ret, 62) = 0
    /\ BitmapBit(ret, 61) = 1 /\ BitmapBit(ret, 60) = 0

====
